---- MODULE Spec2Model ----
(***************************************************************************)
(* A model of src/utils.py: the dataset normalizer prep_dataset and the    *)
(* batch captioner florence_caption_dataset, with the part of the file     *)
(* system, of os.path / os.walk / shutil.move and of PIL they rely on.     *)
(*                                                                         *)
(* A path string is a sequence of its "/"-separated components, so that    *)
(* "data/ds/" is <<"data", "ds", "">>.  A file name is <<base, ext>>, the  *)
(* pair os.path.splitext gives.  A file path is [dir, name].               *)
(*                                                                         *)
(* A file's content records what decides the code's branches: whether it   *)
(* decodes, its colour mode, its size, the input file it was made from     *)
(* (src) and how often it was re-encoded (enc).                            *)
(*                                                                         *)
(* Spec       prep_dataset called twice; Image.save never raises.          *)
(* SpecFaults prep_dataset called once; Image.save may raise.              *)
(* SpecCap    florence_caption_dataset called once; loading the model,     *)
(*            opening an image and generation may raise.                   *)
(***************************************************************************)
EXTENDS Integers, Sequences, FiniteSets, TLC

\* ------------------------------------------------------------------ bounds
\* The largest number of files in the tree when prep_dataset is called.
MaxFiles == 2
\* The largest number of image files handed to the captioner.
MaxImages == 3
\* The largest batch_size the captioner is called with.
MaxBatch == 3

\* --------------------------------------------------------- program constants
\* line 201/203: the largest width and height of a normalized image.
MaxDim == 2048

VARIABLES
  \* ---- arguments
  root_directory,  \* prep_dataset's root_directory, as given (may end in "/")
  soft_clean,      \* prep_dataset's soft_clean
  \* ---- the file system
  fs,              \* normalized file path -> content (NoFile when absent)
  dirs,            \* the directories that exist (normalized)
  \* ---- prep_dataset's locals
  pc,              \* where prep_dataset is
  pass,            \* "first" or "second" call of prep_dataset
  error_dir,       \* line 183
  walkTodo,        \* directories os.walk has still to yield
  subdir,          \* the directory os.walk yielded last
  files,           \* the names of its listing not yet iterated
  file,            \* the loop variable of line 190
  img,             \* the decoded image held in memory
  new_file_path,   \* line 208
  total_imgs,      \* line 187
  resized,         \* line 187
  \* ---- history (read by the properties only)
  fsStart,         \* fs when the current call started
  enumerated,      \* file paths os.walk listed in this call
  trace,           \* what this call did, in order: [path, what, src]
  wasBig,          \* the current file's larger side exceeded MaxDim when decoded
  \* ---- florence_caption_dataset
  dataset_dir,     \* its dataset_dir
  batch_size,      \* its batch_size
  capPc,           \* where florence_caption_dataset is
  image_paths,     \* line 135
  caption_paths,   \* line 135
  txt,             \* caption file path -> text (NoText when absent)
  idx,             \* the loop variable i of line 147
  batch_paths,     \* line 148
  batch_images,    \* line 149
  parsed_answers,  \* line 160
  loads,           \* how many times the model was loaded (line 143)
  procLoads,       \* how many times the processor was loaded (line 145)
  releases,        \* how many times the release of lines 174-178 ran
  abortCause,      \* why the captioner raised, "" when it did not
  written          \* the caption writes of this run, in order

prepVars == <<root_directory, soft_clean, fs, dirs, pc, pass, error_dir,
              walkTodo, subdir, files, file, img, new_file_path,
              total_imgs, resized, fsStart, enumerated, trace,
              wasBig>>
capVars == <<dataset_dir, batch_size, capPc, image_paths, caption_paths, txt,
             idx, batch_paths, batch_images, parsed_answers, loads, procLoads,
             releases, abortCause, written>>
vars == <<prepVars, capVars>>

\* ------------------------------------------------------------------ paths
Last(s) == s[Len(s)]

RECURSIVE NormDir(_)
\* What the file system resolves a directory string to: empty components
\* (a trailing or doubled separator) name nothing.
NormDir(d) ==
  IF d = <<>> THEN <<>>
  ELSE IF d[1] = "" THEN NormDir(Tail(d))
       ELSE <<d[1]>> \o NormDir(Tail(d))

\* os.path.dirname: everything before the last separator.
Dirname(p) == IF Len(p) = 0 THEN <<>> ELSE SubSeq(p, 1, Len(p) - 1)

\* os.path.join(d, n) for a directory string and one component.
JoinDir(d, n) ==
  IF d = <<>> THEN <<n>>
  ELSE IF Last(d) = "" THEN SubSeq(d, 1, Len(d) - 1) \o <<n>>
       ELSE d \o <<n>>

\* os.path.join(d, file) for a directory string and a file name.
JoinFile(d, f) ==
  [dir |-> IF d # <<>> /\ Last(d) = "" THEN SubSeq(d, 1, Len(d) - 1) ELSE d,
   name |-> f]

\* The file the file system resolves a path string to.
Norm(p) == [dir |-> NormDir(p.dir), name |-> p.name]

IsPrefix(s, t) == Len(s) <= Len(t) /\ SubSeq(t, 1, Len(s)) = s

\* str.lower() on an extension.
Lower(ext) ==
  CASE ext = ".JPG" -> ".jpg"
    [] ext = ".TXT" -> ".txt"
    [] OTHER -> ext

\* ------------------------------------------------------- the modelled world
Parent == <<"data">>
Root == <<"data", "ds">>
Sub == <<"data", "ds", "sub">>
RootArgs == {<<"data", "ds">>, <<"data", "ds", "">>}
AllDirs == {Root, Sub, <<"data", "errors">>, <<"data", "ds", "errors">>}
Bases == {"a", "n"}
Exts == {".png", ".jpg", ".TXT"}
AllNames == Bases \X Exts
AllPaths == [dir : AllDirs, name : AllNames]
NoPath == [dir |-> <<>>, name |-> <<"", "">>]

NoFile == [kind |-> "none", mode |-> "", w |-> 0, h |-> 0, src |-> NoPath, enc |-> 0]
\* What a file may hold when prep_dataset is called.
Junk(p) == [kind |-> "junk", mode |-> "", w |-> 0, h |-> 0, src |-> p, enc |-> 0]
Small(p) == [kind |-> "PNG", mode |-> "RGBA", w |-> 512, h |-> 512, src |-> p, enc |-> 0]
Tall(p) == [kind |-> "PNG", mode |-> "RGB", w |-> 1024, h |-> 4096, src |-> p, enc |-> 0]
Kinds == {"junk", "small", "tall"}
Content(k, p) ==
  CASE k = "junk" -> Junk(p)
    [] k = "small" -> Small(p)
    [] k = "tall" -> Tall(p)
NoImg == NoFile

Max(a, b) == IF a >= b THEN a ELSE b

\* ------------------------------------------------------ prep_dataset, pure
\* line 183: the quarantine directory.
ErrorDir(root) == JoinDir(Dirname(root), "errors")

\* line 193: the skip test of soft_clean.
SkipFile(sc, file_path) == sc /\ Lower(file_path.name[2]) \in {".txt", ".npz"}

\* lines 198-199: Image.open and convert succeed on a complete image only.
Decodable(c) == c.kind \in {"PNG", "JPEG"}

\* line 199: img.convert("RGB").
ConvertRGB(c) == [c EXCEPT !.mode = "RGB"]

\* line 201.
NeedsResize(im) == Max(im.w, im.h) > MaxDim

\* line 203: img.thumbnail((2048, 2048)) keeps the aspect ratio and makes the
\* larger side MaxDim.
Thumbnail(im) ==
  IF im.w >= im.h
  THEN [im EXCEPT !.w = MaxDim, !.h = Max(1, (im.h * MaxDim) \div im.w)]
  ELSE [im EXCEPT !.h = MaxDim, !.w = Max(1, (im.w * MaxDim) \div im.h)]

\* lines 201-204: the image after the size check.
Downsample(im) == IF NeedsResize(im) THEN Thumbnail(im) ELSE im

\* lines 201-204: the resized counter after the size check.
ResizedAfter(r, im) == IF NeedsResize(im) THEN r + 1 ELSE r

\* line 207: os.path.splitext(file)[0] + '.jpg'.
NewFilename(f) == <<f[1], ".jpg">>

\* line 209: img.save(new_file_path, 'JPEG', quality=95), a lossy encoding.
EncodeJPEG(im) == [im EXCEPT !.kind = "JPEG", !.enc = im.enc + 1]

\* line 209, failing: what a save that raised may leave at the path it opened.
PartialJPEG(im) == [im EXCEPT !.kind = "partial"]

\* Line 213 without its test: the original is removed whatever the new path is.
ShouldRemoveAlways(new, old) == TRUE

\* line 213.
ShouldRemove(new, old) == new # old

\* line 219: shutil.move on normalized paths; os.rename replaces an existing
\* destination, and renaming a file to itself changes nothing.
MoveFile(f, src, dst) ==
  IF src = dst THEN f ELSE [f EXCEPT ![dst] = f[src], ![src] = NoFile]

\* Line 216 as a handler that swallows the error of the save: control goes
\* on to the removal of the original.
PcAfterSaveErrorIgnored == "remove"

\* line 216: after Image.save raised, control is in the except clause.
PcAfterSaveError == "except"

\* Line 219 followed by a return: the except clause ends the pass.
PcAfterQuarantineStops == "done"

\* line 219: after the move the for loop goes on with the next file.
PcAfterQuarantine == "loop"

\* The current file's path, line 191.
FilePath(d, f) == JoinFile(d, f)

\* os.walk's listing of directory string d: the files and the subdirectories.
ListFiles(f, d) == {n \in AllNames : f[[dir |-> NormDir(d), name |-> n]] # NoFile}
ListDirs(ds, d) == {JoinDir(d, Last(c)) : c \in {c \in ds : c # <<>> /\ Dirname(c) = NormDir(d)}}

\* The history: what was done to the file at path p, which held content c.
Logged(t, p, what, c) == Append(t, [path |-> p, what |-> what, src |-> c.src])

\* --------------------------------------------------- prep_dataset, actions
\* lines 182-187.
Call ==
  /\ pc = "call"
  /\ error_dir' = ErrorDir(root_directory)
  /\ dirs' = dirs \cup {NormDir(ErrorDir(root_directory))}
  /\ total_imgs' = 0
  /\ resized' = 0
  /\ walkTodo' = {root_directory}
  /\ fsStart' = fs
  /\ enumerated' = {}
  /\ trace' = <<>>
  /\ pc' = "walk"
  /\ UNCHANGED <<root_directory, soft_clean, fs, pass, subdir, files, file,
                 img, new_file_path, wasBig, capVars>>

\* line 189: os.walk yields the next directory, top first, and lists it then.
WalkDir ==
  /\ pc = "walk"
  /\ \E d \in walkTodo :
       /\ subdir' = d
       /\ files' = ListFiles(fs, d)
       /\ walkTodo' = (walkTodo \ {d}) \cup ListDirs(dirs, d)
       /\ enumerated' = enumerated \cup
                          {Norm(FilePath(d, n)) : n \in ListFiles(fs, d)}
  /\ pc' = "loop"
  /\ UNCHANGED <<root_directory, soft_clean, fs, dirs, pass, error_dir, file,
                 img, new_file_path, total_imgs, resized, fsStart,
                 trace, wasBig, capVars>>

\* lines 221-224: os.walk is exhausted.
WalkEnd ==
  /\ pc = "walk"
  /\ walkTodo = {}
  /\ pc' = "done"
  /\ UNCHANGED <<root_directory, soft_clean, fs, dirs, pass, error_dir,
                 walkTodo, subdir, files, file, img, new_file_path, total_imgs,
                 resized, fsStart, enumerated, trace, wasBig, capVars>>

\* line 190: the listing of this directory is exhausted.
LoopEnd ==
  /\ pc = "loop"
  /\ files = {}
  /\ pc' = "walk"
  /\ UNCHANGED <<root_directory, soft_clean, fs, dirs, pass, error_dir,
                 walkTodo, subdir, files, file, img, new_file_path, total_imgs,
                 resized, fsStart, enumerated, trace, wasBig, capVars>>

\* lines 190-194: the next file is a caption or cache file and is skipped.
Skip ==
  /\ pc = "loop"
  /\ \E f \in files :
       /\ SkipFile(soft_clean, FilePath(subdir, f))
       /\ file' = f
       /\ files' = files \ {f}
       /\ trace' = Logged(trace, Norm(FilePath(subdir, f)), "skipped",
                           fs[Norm(FilePath(subdir, f))])
  /\ UNCHANGED <<root_directory, soft_clean, fs, dirs, pc, pass, error_dir,
                 walkTodo, subdir, img, new_file_path, total_imgs, resized,
                 fsStart, enumerated, wasBig, capVars>>

\* lines 190-199, 216: the next file does not open or convert.
OpenFails ==
  /\ pc = "loop"
  /\ \E f \in files :
       /\ ~SkipFile(soft_clean, FilePath(subdir, f))
       /\ ~Decodable(fs[Norm(FilePath(subdir, f))])
       /\ file' = f
       /\ files' = files \ {f}
  /\ pc' = "except"
  /\ UNCHANGED <<root_directory, soft_clean, fs, dirs, pass, error_dir,
                 walkTodo, subdir, img, new_file_path, total_imgs, resized,
                 fsStart, enumerated, trace, wasBig,
                 capVars>>

\* lines 190-208: the next file is decoded, converted and downsampled.
OpenConverts ==
  /\ pc = "loop"
  /\ \E f \in files :
       LET c == fs[Norm(FilePath(subdir, f))] IN
       /\ ~SkipFile(soft_clean, FilePath(subdir, f))
       /\ Decodable(c)
       /\ file' = f
       /\ files' = files \ {f}
       /\ img' = Downsample(ConvertRGB(c))
       /\ resized' = ResizedAfter(resized, ConvertRGB(c))
       /\ wasBig' = (c.w > MaxDim \/ c.h > MaxDim)
       /\ new_file_path' = JoinFile(subdir, NewFilename(f))
  /\ pc' = "save"
  /\ UNCHANGED <<root_directory, soft_clean, fs, dirs, pass, error_dir,
                 walkTodo, subdir, total_imgs, fsStart, enumerated,
                 trace, capVars>>

\* lines 209-210: the save succeeds.
Save ==
  /\ pc = "save"
  /\ fs' = [fs EXCEPT ![Norm(new_file_path)] = EncodeJPEG(img)]
  /\ total_imgs' = total_imgs + 1
  /\ trace' = Logged(trace, Norm(FilePath(subdir, file)),
                     IF wasBig THEN "convertedBig" ELSE "converted", img)
  /\ img' = NoImg
  /\ pc' = "remove"
  /\ UNCHANGED <<root_directory, soft_clean, dirs, pass, error_dir, walkTodo,
                 subdir, files, file, new_file_path, resized, fsStart, enumerated, wasBig, capVars>>

\* lines 209, 216: the save raises (disk full, no permission); the path it
\* opened is left as it was or holds a truncated file.
SaveFault ==
  /\ pc = "save"
  /\ \E partial \in BOOLEAN :
       fs' = IF partial
             THEN [fs EXCEPT ![Norm(new_file_path)] = PartialJPEG(img)]
             ELSE fs
  /\ img' = NoImg
  /\ pc' = PcAfterSaveError
  /\ UNCHANGED <<root_directory, soft_clean, dirs, pass, error_dir, walkTodo,
                 subdir, files, file, new_file_path, total_imgs, resized,
                 fsStart, enumerated, trace, wasBig, capVars>>

\* lines 212-214: the original is removed when the new path is another one;
\* os.remove is inside the try, so its raising leads to the except clause.
Remove ==
  /\ pc = "remove"
  /\ LET fp == FilePath(subdir, file) IN
     IF ShouldRemove(new_file_path, fp)
     THEN IF fs[Norm(fp)] = NoFile
          THEN /\ pc' = "except"
               /\ UNCHANGED <<fs, trace>>
          ELSE /\ fs' = [fs EXCEPT ![Norm(fp)] = NoFile]
               /\ trace' = Logged(trace, Norm(fp), "removed", fs[Norm(fp)])
               /\ pc' = "loop"
     ELSE /\ pc' = "loop"
          /\ UNCHANGED <<fs, trace>>
  /\ UNCHANGED <<root_directory, soft_clean, dirs, pass, error_dir, walkTodo,
                 subdir, files, file, img, new_file_path, total_imgs, resized,
                 fsStart, enumerated, wasBig, capVars>>

\* lines 216-219: the file is moved to the quarantine directory; shutil.move
\* raising (no such file) is not caught and ends prep_dataset.
Except ==
  /\ pc = "except"
  /\ LET fp == Norm(FilePath(subdir, file))
         dst == Norm(JoinFile(error_dir, file)) IN
     IF fs[fp] = NoFile
     THEN /\ pc' = "crashed"
          /\ UNCHANGED <<fs, trace>>
     ELSE /\ fs' = MoveFile(fs, fp, dst)
          /\ trace' = Logged(trace, fp, "quarantined", fs[fp])
          /\ pc' = PcAfterQuarantine
  /\ UNCHANGED <<root_directory, soft_clean, dirs, pass, error_dir, walkTodo,
                 subdir, files, file, img, new_file_path, total_imgs, resized,
                 fsStart, enumerated, wasBig, capVars>>

\* The caller runs prep_dataset again on the directory the first call left.
SecondCall ==
  /\ pc = "done"
  /\ pass = "first"
  /\ pass' = "second"
  /\ pc' = "call"
  /\ UNCHANGED <<root_directory, soft_clean, fs, dirs, error_dir, walkTodo,
                 subdir, files, file, img, new_file_path, total_imgs, resized,
                 fsStart, enumerated, trace, wasBig,
                 capVars>>

\* --------------------------------------------------------- initial states
\* The caption files: <base>.txt beside the images.
TxtPaths == [dir : {Root, Sub}, name : Bases \X {".txt"}]
NoText == [from |-> NoPath, lead |-> FALSE, pad |-> FALSE]
\* A caption file that is there before the captioner runs.
OldText == [from |-> NoPath, lead |-> FALSE, pad |-> TRUE]

CapLocals ==
  /\ image_paths = <<>>
  /\ caption_paths = <<>>
  /\ idx = 0
  /\ batch_paths = <<>>
  /\ batch_images = <<>>
  /\ parsed_answers = <<>>
  /\ loads = 0
  /\ procLoads = 0
  /\ releases = 0
  /\ abortCause = ""
  /\ written = <<>>

\* florence_caption_dataset is not running.
CapIdle ==
  /\ dataset_dir = Root
  /\ batch_size = 1
  /\ capPc = "idle"
  /\ txt = [p \in TxtPaths |-> NoText]
  /\ CapLocals

\* The paths a file may be at when prep_dataset is called: two names of one
\* base in the top directory, one of them again in the subdirectory, and a
\* caption file.
InitSlots ==
  {[dir |-> Root, name |-> <<"a", ".png">>],
   [dir |-> Root, name |-> <<"a", ".jpg">>],
   [dir |-> Sub, name |-> <<"a", ".jpg">>],
   [dir |-> Sub, name |-> <<"n", ".TXT">>]}

\* Any tree of at most MaxFiles files, each junk or an image.
InitTree ==
  \E S \in SUBSET InitSlots :
    /\ Cardinality(S) <= MaxFiles
    /\ \E k \in [S -> Kinds] :
         fs = [p \in AllPaths |-> IF p \in S THEN Content(k[p], p) ELSE NoFile]

PrepLocals ==
  /\ dirs = {Parent, Root, Sub}
  /\ pass = "first"
  /\ error_dir = <<>>
  /\ walkTodo = {}
  /\ subdir = <<>>
  /\ files = {}
  /\ file = <<"", "">>
  /\ img = NoImg
  /\ new_file_path = NoPath
  /\ total_imgs = 0
  /\ resized = 0
  /\ fsStart = fs
  /\ enumerated = {}
  /\ trace = <<>>
  /\ wasBig = FALSE

Init ==
  /\ root_directory \in RootArgs
  /\ soft_clean \in BOOLEAN
  /\ InitTree
  /\ pc = "call"
  /\ PrepLocals
  /\ CapIdle

\* One call of prep_dataset.
OneCall ==
  \/ Call
  \/ WalkDir
  \/ WalkEnd
  \/ LoopEnd
  \/ Skip
  \/ OpenFails
  \/ OpenConverts
  \/ Save
  \/ Remove
  \/ Except

Next == OneCall \/ SecondCall

NextFaults == OneCall \/ SaveFault

\* prep_dataset, twice, in an environment without write faults.
Spec == Init /\ [][Next]_vars

\* prep_dataset, once, in an environment where Image.save may raise.
SpecFaults == Init /\ [][NextFaults]_vars

\* ------------------------------------------- florence_caption_dataset, pure
\* The characters of the strings of the model, as code points.
Chars(str) ==
  CASE str = "data" -> <<100, 97, 116, 97>>
    [] str = "ds" -> <<100, 115>>
    [] str = "sub" -> <<115, 117, 98>>
    [] str = "errors" -> <<101, 114, 114, 111, 114, 115>>
    [] str = "a" -> <<97>>
    [] str = "n" -> <<110>>
    [] str = ".jpg" -> <<46, 106, 112, 103>>
    [] str = ".png" -> <<46, 112, 110, 103>>
    [] str = ".txt" -> <<46, 116, 120, 116>>
    [] str = ".TXT" -> <<46, 84, 88, 84>>
    [] OTHER -> <<>>

RECURSIVE DirString(_)
\* A directory string with a separator after every component.
DirString(d) ==
  IF d = <<>> THEN <<>> ELSE Chars(d[1]) \o <<47>> \o DirString(Tail(d))

\* The path string os.path.join(root, file) of line 118.
PathString(p) == DirString(p.dir) \o Chars(p.name[1]) \o Chars(p.name[2])

RECURSIVE StrLess(_, _)
\* Python's order of str: by code point, a proper prefix first.
StrLess(s, t) ==
  IF t = <<>> THEN FALSE
  ELSE IF s = <<>> THEN TRUE
  ELSE IF s[1] # t[1] THEN s[1] < t[1]
  ELSE StrLess(Tail(s), Tail(t))

RECURSIVE SortPaths(_)
\* lines 123-124: list.sort() of path strings.
SortPaths(S) ==
  IF S = {} THEN <<>>
  ELSE LET m == CHOOSE x \in S :
                  \A y \in S \ {x} : StrLess(PathString(x), PathString(y))
       IN <<m>> \o SortPaths(S \ {m})

\* line 115: every file os.walk(dataset_dir) lists, at any depth.
Walked(f, t, d) ==
  {p \in AllPaths : f[p] # NoFile /\ IsPrefix(NormDir(d), p.dir)}
    \cup {p \in TxtPaths : t[p] # NoText /\ IsPrefix(NormDir(d), p.dir)}

\* line 117.
IsImageName(name) == Lower(name[2]) \in {".jpg", ".jpeg", ".png"}

\* line 119.
IsCaptionName(name) == Lower(name[2]) = ".txt"

\* lines 110-126: get_image_and_caption_paths.
ImagePathsOf(f, t, d) == SortPaths({p \in Walked(f, t, d) : IsImageName(p.name)})
CaptionPathsOf(f, t, d) ==
  SortPaths({p \in Walked(f, t, d) : ~IsImageName(p.name) /\ IsCaptionName(p.name)})

Min(a, b) == IF a <= b THEN a ELSE b

\* line 148: image_paths[i:i+batch_size], i counted from 0.
BatchSlice(paths, i, n) == SubSeq(paths, i + 1, Min(i + n, Len(paths)))

\* Line 147 with the step left out: range(len(image_paths)).
NextIndexByOne(i, n) == i + 1

\* line 147: the step of range(0, len(image_paths), batch_size).
NextIndex(i, n) == i + n

\* line 149: Image.open(path).convert("RGB") of every path of the batch.
OpenBatch(f, paths) == [k \in 1..Len(paths) |-> ConvertRGB(f[paths[k]])]
BatchDecodable(f, paths) == \A k \in 1..Len(paths) : Decodable(f[paths[k]])

\* lines 151-160: the model as a function of one image: its answer names the
\* image it was made from, opens with "The image shows a " and is padded.
Answer(im) == [from |-> im.src, lead |-> TRUE, pad |-> TRUE]
ParsedAnswers(images) == [k \in 1..Len(images) |-> Answer(images[k])]

\* line 163: .replace("The image shows a ", "A ").
ReplaceLead(t) == [t EXCEPT !.lead = FALSE]
\* line 164: .replace("<pad>", "").
StripPad(t) == [t EXCEPT !.pad = FALSE]
\* lines 163-164: the second assignment starts from the answer again, so the
\* first one is lost.
Caption(answer) ==
  LET caption1 == ReplaceLead(answer)
      caption2 == StripPad(answer)
  IN caption2

\* lines 165-167: <dirname>/<basename>.txt.
CaptionPath(path) == [dir |-> path.dir, name |-> <<path.name[1], ".txt">>]

RECURSIVE WriteAll(_, _, _)
\* lines 162-168: the captions of one batch, written in order.
WriteAll(t, paths, answers) ==
  IF paths = <<>> THEN t
  ELSE WriteAll([t EXCEPT ![CaptionPath(Head(paths))] = Caption(Head(answers))],
                Tail(paths), Tail(answers))

\* The history of the writes of one batch.
Writes(paths, answers) ==
  [k \in 1..Len(paths) |->
     [image |-> paths[k], to |-> CaptionPath(paths[k]), text |-> Caption(answers[k])]]

\* Lines 142-145 moved into the loop: the model is loaded for every batch.
PcAfterBatchReloads == "loadModel"

\* lines 147, 169-173: after a batch, the loop goes on.
PcAfterBatch == "loop"

\* ---------------------------------------- florence_caption_dataset, actions
\* lines 134-140.
Discover ==
  /\ capPc = "call"
  /\ image_paths' = ImagePathsOf(fs, txt, dataset_dir)
  /\ caption_paths' = CaptionPathsOf(fs, txt, dataset_dir)
  /\ capPc' = "loadModel"
  /\ UNCHANGED <<prepVars, dataset_dir, batch_size, txt, idx, batch_paths,
                 batch_images, parsed_answers, loads, procLoads, releases,
                 abortCause, written>>

\* lines 142-143.
LoadModel ==
  /\ capPc = "loadModel"
  /\ loads' = loads + 1
  /\ capPc' = "loadProcessor"
  /\ UNCHANGED <<prepVars, dataset_dir, batch_size, image_paths, caption_paths,
                 txt, idx, batch_paths, batch_images, parsed_answers,
                 procLoads, releases, abortCause, written>>

\* line 145.
LoadProcessor ==
  /\ capPc = "loadProcessor"
  /\ procLoads' = procLoads + 1
  /\ idx' = 0
  /\ capPc' = "loop"
  /\ UNCHANGED <<prepVars, dataset_dir, batch_size, image_paths, caption_paths,
                 txt, batch_paths, batch_images, parsed_answers, loads,
                 releases, abortCause, written>>

\* lines 143, 145: from_pretrained raises (no weights, no memory).
LoadFails ==
  /\ capPc \in {"loadModel", "loadProcessor"}
  /\ capPc' = "aborted"
  /\ abortCause' = "load"
  /\ UNCHANGED <<prepVars, dataset_dir, batch_size, image_paths, caption_paths,
                 txt, idx, batch_paths, batch_images, parsed_answers, loads,
                 procLoads, releases, written>>

\* lines 147-149: the next batch is cut and its images are opened.
BatchOpen ==
  /\ capPc = "loop"
  /\ idx < Len(image_paths)
  /\ BatchDecodable(fs, BatchSlice(image_paths, idx, batch_size))
  /\ batch_paths' = BatchSlice(image_paths, idx, batch_size)
  /\ batch_images' = OpenBatch(fs, BatchSlice(image_paths, idx, batch_size))
  /\ capPc' = "generate"
  /\ UNCHANGED <<prepVars, dataset_dir, batch_size, image_paths, caption_paths,
                 txt, idx, parsed_answers, loads, procLoads, releases,
                 abortCause, written>>

\* lines 147-149: an image of the next batch does not open.
BatchOpenFails ==
  /\ capPc = "loop"
  /\ idx < Len(image_paths)
  /\ ~BatchDecodable(fs, BatchSlice(image_paths, idx, batch_size))
  /\ batch_paths' = BatchSlice(image_paths, idx, batch_size)
  /\ capPc' = "aborted"
  /\ abortCause' = "decode"
  /\ UNCHANGED <<prepVars, dataset_dir, batch_size, image_paths, caption_paths,
                 txt, idx, batch_images, parsed_answers, loads, procLoads,
                 releases, written>>

\* lines 151-160.
Generate ==
  /\ capPc = "generate"
  /\ parsed_answers' = ParsedAnswers(batch_images)
  /\ capPc' = "write"
  /\ UNCHANGED <<prepVars, dataset_dir, batch_size, image_paths, caption_paths,
                 txt, idx, batch_paths, batch_images, loads, procLoads,
                 releases, abortCause, written>>

\* lines 151-160: the processor or the model raises (out of memory).
GenerateFails ==
  /\ capPc = "generate"
  /\ capPc' = "aborted"
  /\ abortCause' = "generate"
  /\ UNCHANGED <<prepVars, dataset_dir, batch_size, image_paths, caption_paths,
                 txt, idx, batch_paths, batch_images, parsed_answers, loads,
                 procLoads, releases, written>>

\* lines 162-172, 147: the captions of the batch are written, its images are
\* closed, and the loop variable advances.
WriteCaptions ==
  /\ capPc = "write"
  /\ txt' = WriteAll(txt, batch_paths, parsed_answers)
  /\ written' = written \o Writes(batch_paths, parsed_answers)
  /\ batch_images' = <<>>
  /\ idx' = NextIndex(idx, batch_size)
  /\ capPc' = PcAfterBatch
  /\ UNCHANGED <<prepVars, dataset_dir, batch_size, image_paths, caption_paths,
                 batch_paths, parsed_answers, loads, procLoads, releases,
                 abortCause>>

\* lines 147, 174-180: the range is exhausted; the model and the processor
\* are released and the function returns.
Release ==
  /\ capPc = "loop"
  /\ idx >= Len(image_paths)
  /\ releases' = releases + 1
  /\ capPc' = "done"
  /\ UNCHANGED <<prepVars, dataset_dir, batch_size, image_paths, caption_paths,
                 txt, idx, batch_paths, batch_images, parsed_answers, loads,
                 procLoads, abortCause, written>>

\* The image files the captioner may find: two names of one base in one
\* directory, the same name in the subdirectory, and another base.
CapSlots ==
  {[dir |-> Root, name |-> <<"a", ".jpg">>],
   [dir |-> Root, name |-> <<"a", ".png">>],
   [dir |-> Sub, name |-> <<"a", ".jpg">>],
   [dir |-> Root, name |-> <<"n", ".jpg">>]}
\* The caption files that may be there before.
OldTxtSlots == {[dir |-> Root, name |-> <<"a", ".txt">>],
                [dir |-> Sub, name |-> <<"n", ".txt">>]}

PrepIdle ==
  /\ root_directory = Root
  /\ soft_clean = FALSE
  /\ pc = "idle"
  /\ PrepLocals

InitCap ==
  /\ \E S \in SUBSET CapSlots :
       /\ Cardinality(S) <= MaxImages
       /\ \E k \in [S -> {"junk", "small"}] :
            fs = [p \in AllPaths |-> IF p \in S THEN Content(k[p], p) ELSE NoFile]
  /\ \E T \in SUBSET OldTxtSlots :
       txt = [p \in TxtPaths |-> IF p \in T THEN OldText ELSE NoText]
  /\ dataset_dir = Root
  /\ batch_size \in 1..MaxBatch
  /\ capPc = "call"
  /\ CapLocals
  /\ PrepIdle

NextCap ==
  \/ Discover
  \/ LoadModel
  \/ LoadProcessor
  \/ LoadFails
  \/ BatchOpen
  \/ BatchOpenFails
  \/ Generate
  \/ GenerateFails
  \/ WriteCaptions
  \/ Release

\* florence_caption_dataset, once.
SpecCap == InitCap /\ [][NextCap]_vars

\* ------------------------------------------------- properties, prep_dataset
Exists(p) == fs[p] # NoFile
\* Under root_directory, at any depth.
InTree(p) == IsPrefix(NormDir(root_directory), p.dir)
\* Directly in the quarantine directory.
InQuarantine(p) == p.dir = NormDir(error_dir)
\* A completely written image in the canonical format.
IsCanonical(p, c) ==
  /\ c.kind = "JPEG"
  /\ c.mode = "RGB"
  /\ c.w <= MaxDim
  /\ c.h <= MaxDim
  /\ p.name[2] = ".jpg"
\* The entries of the history of this call that are of one of the kinds.
Entries(what) == {k \in 1..Len(trace) : trace[k].what \in what}
Converted == {"converted", "convertedBig"}
InputFiles == {p \in AllPaths : fsStart[p] # NoFile}
FilesNow == {p \in AllPaths : Exists(p)}

\* C1: after prep_dataset(root_directory) returns, every file under
\* root_directory is a completely written canonical image, and every input
\* file that was not converted lies in the quarantine directory, outside the
\* tree.
C1_TreeIsCanonical ==
  (pc = "done" /\ ~soft_clean) =>
    /\ \A p \in AllPaths : (Exists(p) /\ InTree(p)) => IsCanonical(p, fs[p])
    /\ \A k \in Entries({"quarantined"}) :
         \E q \in AllPaths :
           Exists(q) /\ InQuarantine(q) /\ ~InTree(q) /\ q.name = trace[k].path.name

\* C2: after the pass a file that failed to decode is no longer at its
\* path, a file of its name is in the quarantine directory, and nothing is
\* both in the tree and in quarantine.
C2_FailedFilesLeaveTheTree ==
  pc = "done" =>
    /\ \A k \in Entries({"quarantined"}) :
         /\ fs[trace[k].path].src # trace[k].src
         /\ \E q \in AllPaths :
              Exists(q) /\ InQuarantine(q) /\ q.name = trace[k].path.name
    /\ \A p \in AllPaths : Exists(p) => ~(InTree(p) /\ InQuarantine(p))
    /\ \A p, q \in AllPaths :
         (Exists(p) /\ Exists(q) /\ InTree(p) /\ InQuarantine(q) /\ p # q)
           => fs[p].src # fs[q].src

\* C3: a second call on the directory the first call left changes no path of
\* the tree and nothing in quarantine, removes nothing, moves no file into
\* quarantine that was not there, resizes nothing, and leaves every file
\* untouched or re-encoded at the same path.
C3_SecondPassChangesNothing ==
  (pass = "second" /\ pc = "done") =>
    /\ FilesNow = InputFiles
    /\ \A p \in AllPaths : InQuarantine(p) => fs[p] = fsStart[p]
    /\ Entries({"removed"}) = {}
    /\ \A k \in Entries({"quarantined"}) : InQuarantine(trace[k].path)
    /\ \A p \in AllPaths :
         Exists(p) =>
           \/ fs[p] = fsStart[p]
           \/ /\ IsCanonical(p, fsStart[p])
              /\ fs[p] = EncodeJPEG(fsStart[p])
    /\ resized = 0

\* C3, witness: the second call returned after re-encoding a file, with a
\* file in quarantine.
C3_Witness ==
  /\ pass = "second"
  /\ pc = "done"
  /\ total_imgs > 0
  /\ \E q \in AllPaths : Exists(q) /\ InQuarantine(q)

\* C10: every input file is, after the pass, a file of its own in the tree or
\* in quarantine, so the pass ends with as many files as it began with.
C10_NoInputIsOverwritten ==
  pc = "done" =>
    /\ Cardinality(FilesNow) = Cardinality(InputFiles)
    /\ \A p \in InputFiles : \E q \in FilesNow : fs[q].src = fsStart[p].src

\* What the loop did with the file at path p, the removal of line 214 aside.
Handled(p) == SelectSeq(trace, LAMBDA e : e.path = p /\ e.what # "removed")

\* C6, in every state: prep_dataset has not raised and can go on until it
\* returns; when it returns, os.walk is exhausted, every input file of the
\* tree was enumerated, and every enumerated file was handled exactly once:
\* converted, quarantined or (a caption or cache file under soft_clean)
\* skipped.
C6_EveryFileHandledOnce ==
  /\ pc # "crashed"
  /\ pc # "done" => ENABLED NextFaults
  /\ pc = "done" =>
       /\ walkTodo = {}
       /\ files = {}
       /\ \A p \in InputFiles : InTree(p) => p \in enumerated
       /\ \A p \in enumerated :
            /\ Len(Handled(p)) = 1
            /\ \/ Handled(p)[1].what \in Converted \cup {"quarantined"}
               \/ Handled(p)[1].what = "skipped" /\ SkipFile(soft_clean, p)

\* C6, in every step: the except clause touches the failing file and its
\* place in quarantine only, and no counter.
C6_FailureTouchesOneFile ==
  pc = "except" =>
    /\ total_imgs' = total_imgs
    /\ resized' = resized
    /\ \A p \in AllPaths :
         p \notin {Norm(FilePath(subdir, file)), Norm(JoinFile(error_dir, file))}
           => fs'[p] = fs[p]

\* C6: a failing file does not end the pass, is handled once, undoes no
\* conversion, and the files after it are handled too.
C6_FailureIsNotFatal ==
  []C6_EveryFileHandledOnce /\ [][C6_FailureTouchesOneFile]_vars

\* C6, witness: the pass returned having converted a file after it had
\* quarantined another.
C6_Witness ==
  /\ pc = "done"
  /\ \E j, k \in 1..Len(trace) :
       j < k /\ trace[j].what = "quarantined" /\ trace[k].what \in Converted

\* C7: the counts reported at the end are exact: total_imgs is the number of
\* files converted, resized the number of those whose larger side exceeded
\* MaxDim; so resized <= total_imgs.
C7_CountsAreExact ==
  pc = "done" =>
    /\ total_imgs = Cardinality(Entries(Converted))
    /\ resized = Cardinality(Entries({"convertedBig"}))
    /\ resized <= total_imgs

\* C8, one step: a file leaves its path either by the move to quarantine or by the
\* os.remove of line 214, and then only when its name is not the canonical
\* one and the canonical path holds the complete image converted from it.
C8_Step ==
  \A p \in AllPaths :
    (fs[p] # NoFile /\ fs'[p] = NoFile) =>
      \/ pc = "except"
      \/ /\ pc = "remove"
         /\ p.name # NewFilename(p.name)
         /\ Norm(new_file_path) # p
         /\ IsCanonical(Norm(new_file_path), fs[Norm(new_file_path)])
         /\ fs[Norm(new_file_path)].src = fs[p].src
         /\ fs'[Norm(new_file_path)] = fs[Norm(new_file_path)]

\* C8: the original is deleted only after the canonical .jpg is completely
\* written, only when the new path is another one; every step keeps C8_Step.
C8_RemovedOnlyAfterWritten == [][C8_Step]_vars

\* C8, witness: os.remove has deleted an original.
C8_Witness == Entries({"removed"}) # {}

\* With the quarantine directory outside the tree, and no write fault, the
\* statements of C1 and C2 hold.
SiblingQuarantine == NormDir(ErrorDir(root_directory)) = <<"data", "errors">>
C1_SiblingOnly == SiblingQuarantine => C1_TreeIsCanonical
C2_SiblingOnly == SiblingQuarantine => C2_FailedFilesLeaveTheTree

\* ------------------------------------- properties, florence_caption_dataset
\* The images of the list, as a set.
Images == {image_paths[k] : k \in 1..Len(image_paths)}
\* The writes of this run that went to caption path q.
WritesTo(q) == {k \in 1..Len(written) : written[k].to = q}

\* C4: after a successful run every discovered image has a caption file of
\* its own: at <dirname>/<basename>.txt, made from that image, written once,
\* and no other image's.
C4_OneCaptionPerImage ==
  capPc = "done" =>
    /\ \A p \in Images :
         /\ txt[CaptionPath(p)] = Caption(Answer(ConvertRGB(fs[p])))
         /\ Cardinality(WritesTo(CaptionPath(p))) = 1
    /\ \A p, q \in Images : p # q => CaptionPath(p) # CaptionPath(q)

\* The statement of C4 holds of the runs in which no two images of a
\* directory share a base name.
C4_DistinctBasesOnly ==
  (\A p, q \in Images : p # q => CaptionPath(p) # CaptionPath(q))
    => C4_OneCaptionPerImage

RECURSIVE RunOneByOne(_)
\* The caption writes of a run with batch_size 1 over the paths: one per
\* image, in order, up to the first image that does not open.
RunOneByOne(paths) ==
  IF paths = <<>> THEN <<>>
  ELSE IF ~Decodable(fs[Head(paths)]) THEN <<>>
  ELSE Writes(<<Head(paths)>>, ParsedAnswers(OpenBatch(fs, <<Head(paths)>>)))
         \o RunOneByOne(Tail(paths))

LastOf(S) == CHOOSE k \in S : \A j \in S : j <= k

C9_ModelLifecycle ==
  /\ loads <= 1 /\ procLoads <= 1 /\ releases <= 1
  /\ capPc \in {"loop", "generate", "write"} =>
       loads = 1 /\ procLoads = 1 /\ releases = 0
  /\ written # <<>> => loads = 1 /\ procLoads = 1
  /\ capPc = "done" =>
       /\ loads = 1 /\ procLoads = 1 /\ releases = 1
       /\ idx >= Len(image_paths)
       /\ Len(written) = Len(image_paths)
  /\ releases = 1 => capPc = "done"
  /\ capPc = "aborted" => releases = 0 /\ abortCause # ""

\* C9, witness: the run raised after a batch was written, with the model
\* loaded and not released.
C9_Witness ==
  /\ capPc = "aborted"
  /\ written # <<>>
  /\ loads = 1
  /\ releases = 0

====
